---- MODULE Spec2Model ----
(***************************************************************************)
(* Model of Module-4/Code/analytics.py: RollingStats (Welford's online     *)
(* mean / variance), TextCleaner, and the DataPipeline that composes them. *)
(*                                                                         *)
(* Python values are records [ty, k, num, den]: ty is the Python type the  *)
(* isinstance checks look at, and (k, num, den) the numeric value.  A      *)
(* Python float is [k, num, den] with k one of "fin" (the rational         *)
(* num/den in lowest terms), "inf", "ninf", "nan"; arithmetic on finite    *)
(* floats is exact (rounding is not modelled), arithmetic on inf / nan     *)
(* follows IEEE 754.  An int has k = "fin" with den = 1, or k = "big" for  *)
(* an int whose magnitude exceeds the float range (10**400): converting    *)
(* it to float raises OverflowError.                                       *)
(***************************************************************************)
EXTENDS Integers, Sequences, FiniteSets

VARIABLES rs, calls, last, p, plast, tc

vars == <<rs, calls, last, p, plast, tc>>

\* Cap on the number of update calls made on one RollingStats instance.
MaxN == 3

\* Cap on the length of the strings given to TextCleaner.clean.
MaxStr == 5

\* Cap on the number of texts given to one ingest_texts call.
MaxTexts == 2

--------------------------------------------------------------------------
(* Exact rationals and Python floats *)

Abs(i) == IF i < 0 THEN -i ELSE i

RECURSIVE GCD(_, _)
GCD(a, b) == IF b = 0 THEN a ELSE GCD(b, a % b)

\* The finite float num/den, in lowest terms with a positive denominator.
Fin(n, d) ==
    LET s == IF d < 0 THEN -1 ELSE 1
        g == GCD(Abs(n), Abs(d))
    IN  [k |-> "fin", num |-> (s * n) \div g, den |-> (s * d) \div g]

Inf == [k |-> "inf", num |-> 0, den |-> 1]
NInf == [k |-> "ninf", num |-> 0, den |-> 1]
NaN == [k |-> "nan", num |-> 0, den |-> 1]
Zero == Fin(0, 1)

\* -1, 0 or 1; only asked of a float that is not nan.
Sign(a) ==
    IF a.k = "inf" THEN 1
    ELSE IF a.k = "ninf" THEN -1
    ELSE IF a.num > 0 THEN 1 ELSE IF a.num < 0 THEN -1 ELSE 0

FNeg(a) ==
    IF a.k = "nan" THEN NaN
    ELSE IF a.k = "inf" THEN NInf
    ELSE IF a.k = "ninf" THEN Inf
    ELSE Fin(-a.num, a.den)

\* float + float
FAdd(a, b) ==
    IF a.k = "nan" \/ b.k = "nan" THEN NaN
    ELSE IF a.k = "inf" THEN (IF b.k = "ninf" THEN NaN ELSE Inf)
    ELSE IF a.k = "ninf" THEN (IF b.k = "inf" THEN NaN ELSE NInf)
    ELSE IF b.k # "fin" THEN b
    ELSE Fin(a.num * b.den + b.num * a.den, a.den * b.den)

\* float - float
FSub(a, b) == FAdd(a, FNeg(b))

\* float * float
FMul(a, b) ==
    IF a.k = "nan" \/ b.k = "nan" THEN NaN
    ELSE IF a.k # "fin" \/ b.k # "fin"
         THEN (IF Sign(a) * Sign(b) = 0 THEN NaN
               ELSE IF Sign(a) * Sign(b) > 0 THEN Inf ELSE NInf)
    ELSE Fin(a.num * b.num, a.den * b.den)

\* float / int, for a positive int
FDivInt(a, n) == IF a.k # "fin" THEN a ELSE Fin(a.num, a.den * n)

\* float >= 0 (False for nan, as every comparison with nan is)
FGeZero(a) == a.k = "inf" \/ (a.k = "fin" /\ a.num >= 0)

--------------------------------------------------------------------------
(* Python values *)

PyInt(i) == [ty |-> "int", k |-> "fin", num |-> i, den |-> 1]
PyBigInt == [ty |-> "int", k |-> "big", num |-> 0, den |-> 1]
PyBool(b) == [ty |-> "bool", k |-> "fin", num |-> (IF b THEN 1 ELSE 0), den |-> 1]
PyFloat(f) == [ty |-> "float", k |-> f.k, num |-> f.num, den |-> f.den]
PyStr == [ty |-> "str", k |-> "na", num |-> 0, den |-> 1]
PyNone == [ty |-> "NoneType", k |-> "na", num |-> 0, den |-> 1]
PyList == [ty |-> "list", k |-> "na", num |-> 0, den |-> 1]

\* isinstance(x, (int, float)); bool is a subclass of int.
IsIntOrFloat(x) == x.ty \in {"int", "bool", "float"}

\* The int -> float conversion fails for an int beyond the float range.
ConvOverflows(x) == x.k = "big"

\* The float an int, bool or float operand is converted to.
ToFloat(x) == [k |-> x.k, num |-> x.num, den |-> x.den]

\* A real finite number: an int of any size, a bool, a float that is
\* neither infinite nor nan.
IsFiniteReal(x) == IsIntOrFloat(x) /\ x.k \in {"fin", "big"}

\* A real finite number that a float can hold.
InFloatRange(x) == IsIntOrFloat(x) /\ x.k = "fin"

--------------------------------------------------------------------------
(* RollingStats *)

\* RollingStats(): n = 0, _mean = 0.0, _m2 = 0.0
NewStats == [n |-> 0, mean |-> Zero, m2 |-> Zero]

\* update with the accumulator step m2 += delta * delta (not delta * delta2)
updateNaive(st, x) ==
    IF ~IsIntOrFloat(x) THEN [st |-> st, exc |-> "ValidationError"]
    ELSE LET n1 == st.n + 1 IN
         IF ConvOverflows(x)
         THEN [st |-> [st EXCEPT !.n = n1], exc |-> "OverflowError"]
         ELSE LET delta == FSub(ToFloat(x), st.mean)
                  mean1 == FAdd(st.mean, FDivInt(delta, n1))
              IN  [st |-> [n |-> n1, mean |-> mean1,
                           m2 |-> FAdd(st.m2, FMul(delta, delta))],
                   exc |-> "None"]

\* update that counts the observation before it validates it
updateCountFirst(st, x) ==
    LET n1 == st.n + 1 IN
    IF ~IsIntOrFloat(x)
    THEN [st |-> [st EXCEPT !.n = n1], exc |-> "ValidationError"]
    ELSE IF ConvOverflows(x)
         THEN [st |-> [st EXCEPT !.n = n1], exc |-> "OverflowError"]
         ELSE LET delta == FSub(ToFloat(x), st.mean)
                  mean1 == FAdd(st.mean, FDivInt(delta, n1))
                  delta2 == FSub(ToFloat(x), mean1)
              IN  [st |-> [n |-> n1, mean |-> mean1,
                           m2 |-> FAdd(st.m2, FMul(delta, delta2))],
                   exc |-> "None"]

\* RollingStats.update(x): the state after the call and the exception it
\* raised ("None" when it returned).  self.n += 1 runs before x - self._mean,
\* which converts an int operand to float and so may raise OverflowError.
update(st, x) ==
    IF ~IsIntOrFloat(x) THEN [st |-> st, exc |-> "ValidationError"]
    ELSE LET n1 == st.n + 1 IN
         IF ConvOverflows(x)
         THEN [st |-> [st EXCEPT !.n = n1], exc |-> "OverflowError"]
         ELSE LET delta == FSub(ToFloat(x), st.mean)
                  mean1 == FAdd(st.mean, FDivInt(delta, n1))
                  delta2 == FSub(ToFloat(x), mean1)
              IN  [st |-> [n |-> n1, mean |-> mean1,
                           m2 |-> FAdd(st.m2, FMul(delta, delta2))],
                   exc |-> "None"]

\* RollingStats.bulk_update(values): update in order, stopping at the first
\* one that raises.  Besides the final state and exception, the result
\* records the update calls made (made) and the state before the last of
\* them (pre).
RECURSIVE bulk_loop(_, _, _, _, _)
bulk_loop(st, values, i, made, pre) ==
    IF i > Len(values) THEN [st |-> st, exc |-> "None", made |-> made, pre |-> pre]
    ELSE LET r == update(st, values[i]) IN
         IF r.exc # "None"
         THEN [st |-> r.st, exc |-> r.exc, made |-> Append(made, values[i]), pre |-> st]
         ELSE bulk_loop(r.st, values, i + 1, Append(made, values[i]), st)

bulk_update(st, values) == bulk_loop(st, values, 1, <<>>, st)

\* RollingStats.mean
mean(st) == IF st.n > 0 THEN st.mean ELSE Zero

\* RollingStats.variance
variance(st) == IF st.n < 2 THEN Zero ELSE FDivInt(st.m2, st.n - 1)

--------------------------------------------------------------------------
(* TextCleaner *)

\* Strings are sequences of characters.  " " and "\t" are whitespace; "A"
\* and "a" are a cased letter and its lowercase form.
Chars == {" ", "\t", "a", "A"}

\* str.isspace for one character
IsSpace(c) == c \in {" ", "\t"}

\* str.lower for one character
LowerChar(c) == IF c = "A" THEN "a" ELSE c

RECURSIVE lstrip(_)
lstrip(s) == IF s # <<>> /\ IsSpace(Head(s)) THEN lstrip(Tail(s)) ELSE s

RECURSIVE rstrip(_)
rstrip(s) ==
    IF s # <<>> /\ IsSpace(s[Len(s)]) THEN rstrip(SubSeq(s, 1, Len(s) - 1)) ELSE s

\* s.strip()
strip(s) == rstrip(lstrip(s))

\* s.split(): the maximal runs of non-whitespace characters, in order
RECURSIVE split_loop(_, _, _)
split_loop(s, cur, words) ==
    IF s = <<>> THEN (IF cur = <<>> THEN words ELSE Append(words, cur))
    ELSE IF IsSpace(Head(s))
         THEN split_loop(Tail(s), <<>>, IF cur = <<>> THEN words ELSE Append(words, cur))
         ELSE split_loop(Tail(s), Append(cur, Head(s)), words)

split(s) == split_loop(s, <<>>, <<>>)

\* sep.join(words)
RECURSIVE join(_, _)
join(sep, words) ==
    IF words = <<>> THEN <<>>
    ELSE IF Len(words) = 1 THEN words[1]
    ELSE words[1] \o sep \o join(sep, Tail(words))

\* s.lower()
lower(s) == [i \in 1..Len(s) |-> LowerChar(s[i])]

\* s.replace("  ", " "): left to right, occurrences that do not overlap
RECURSIVE replace_double(_)
replace_double(s) ==
    IF Len(s) < 2 THEN s
    ELSE IF s[1] = " " /\ s[2] = " " THEN <<" ">> \o replace_double(SubSeq(s, 3, Len(s)))
    ELSE <<s[1]>> \o replace_double(Tail(s))

\* A text argument: a str with its characters, or a value that is no str.
PyText(s) == [ty |-> "str", s |-> s]
NotText == [ty |-> "NoneType", s |-> <<>>]

\* TextCleaner(lowercase, collapse_spaces)
Cleaner(lc, cs) == [lowercase |-> lc, collapse_spaces |-> cs]
DefaultCleaner == Cleaner(TRUE, TRUE)

\* clean that collapses with one pass of replace("  ", " ")
cleanReplaceOnce(self, t) ==
    IF t.ty # "str" THEN [exc |-> "ValidationError", val |-> <<>>]
    ELSE LET out0 == strip(t.s)
             out1 == IF self.collapse_spaces THEN replace_double(out0) ELSE out0
             out2 == IF self.lowercase THEN lower(out1) ELSE out1
         IN  [exc |-> "None", val |-> out2]

\* TextCleaner.clean(s): the exception raised ("None" when it returned) and
\* the string returned.
clean(self, t) ==
    IF t.ty # "str" THEN [exc |-> "ValidationError", val |-> <<>>]
    ELSE LET out0 == strip(t.s)
             out1 == IF self.collapse_spaces THEN join(<<" ">>, split(out0)) ELSE out0
             out2 == IF self.lowercase THEN lower(out1) ELSE out1
         IN  [exc |-> "None", val |-> out2]

--------------------------------------------------------------------------
(* DataPipeline *)

\* DataPipeline(cleaner): stats = RollingStats(), cache = []
NewPipeline(c) == [cleaner |-> c, stats |-> NewStats, cache |-> <<>>]

\* ingest_texts that hands back what it cleaned before the failure
RECURSIVE texts_loop_partial(_, _, _, _)
texts_loop_partial(self, texts, i, cleaned) ==
    IF i > Len(texts) THEN [exc |-> "None", has |-> TRUE, ret |-> cleaned]
    ELSE LET r == clean(self.cleaner, texts[i]) IN
         IF r.exc # "None" THEN [exc |-> r.exc, has |-> TRUE, ret |-> cleaned]
         ELSE texts_loop_partial(self, texts, i + 1, Append(cleaned, r.val))

ingest_texts_partial(self, texts) == texts_loop_partial(self, texts, 1, <<>>)

\* DataPipeline.ingest_texts(texts): the exception raised ("None" when it
\* returned), whether a value was returned (has) and the value (ret).
RECURSIVE texts_loop(_, _, _, _)
texts_loop(self, texts, i, cleaned) ==
    IF i > Len(texts) THEN [exc |-> "None", has |-> TRUE, ret |-> cleaned]
    ELSE LET r == clean(self.cleaner, texts[i]) IN
         IF r.exc # "None" THEN [exc |-> r.exc, has |-> FALSE, ret |-> <<>>]
         ELSE texts_loop(self, texts, i + 1, Append(cleaned, r.val))

ingest_texts(self, texts) == texts_loop(self, texts, 1, <<>>)

\* DataPipeline.ingest_numbers(xs): the pipeline after the call and the
\* exception raised ("None" when it returned).  float(x) is only reached
\* after update(x) returned, so x converts.
RECURSIVE numbers_loop(_, _, _)
numbers_loop(self, xs, i) ==
    IF i > Len(xs) THEN [p |-> self, exc |-> "None"]
    ELSE LET r == update(self.stats, xs[i]) IN
         IF r.exc # "None" THEN [p |-> [self EXCEPT !.stats = r.st], exc |-> r.exc]
         ELSE numbers_loop([self EXCEPT !.stats = r.st,
                                        !.cache = Append(self.cache, ToFloat(xs[i]))],
                           xs, i + 1)

\* ingest_numbers that rebuilds the cache from the values of this call
ingest_numbers_replace(self, xs) ==
    LET r == numbers_loop(self, xs, 1)
    IN  [r EXCEPT !.p.cache = SubSeq(r.p.cache, Len(self.cache) + 1, Len(r.p.cache))]

ingest_numbers(self, xs) == numbers_loop(self, xs, 1)

\* reset that leaves the cache as it is
reset_keep_cache(self) == [self EXCEPT !.stats = NewStats]

\* DataPipeline.reset()
reset(self) == [self EXCEPT !.stats = NewStats, !.cache = <<>>]

--------------------------------------------------------------------------
(* Inputs *)

SeqsUpTo(S, n) == UNION {[1..m -> S] : m \in 0..n}

\* The arguments given to RollingStats.update and bulk_update.
StatsValues ==
    {PyInt(1), PyInt(-2), PyBool(TRUE), PyFloat(Fin(1, 2)),
     PyFloat(Inf), PyFloat(NInf), PyFloat(NaN), PyBigInt, PyStr, PyNone, PyList}

\* The elements given to DataPipeline.ingest_numbers.
PipeValues == {PyInt(1), PyFloat(Fin(5, 2)), PyBigInt, PyNone}

\* The elements given to DataPipeline.ingest_texts.
TextItems == {PyText(<<" ", "A", "\t", " ", "a">>), PyText(<<"a">>), NotText}

Cleaners == {Cleaner(lc, cs) : lc \in BOOLEAN, cs \in BOOLEAN}

\* The configurations a DataPipeline is constructed with.
PipeCleaners == {DefaultCleaner, Cleaner(FALSE, FALSE)}

Strings == SeqsUpTo(Chars, MaxStr)

--------------------------------------------------------------------------
(* State *)
(* rs, calls, last: a RollingStats instance, the arguments of the update   *)
(*   calls made on it, and the last of those calls (its argument x, the    *)
(*   state before it and the exception it raised; upd says one was made).  *)
(* p, plast: a DataPipeline and the last operation called on it (its       *)
(*   arguments, the pipeline before it, what it raised and returned).      *)
(* tc: a TextCleaner configuration, a string, and the results of clean     *)
(*   applied to the string once and twice.                                 *)

NoCall == [op |-> "init", upd |-> FALSE, x |-> PyNone, pre |-> NewStats, exc |-> "None"]

NoOp(pl) ==
    [op |-> "init", xs |-> <<>>, texts |-> <<>>, pre |-> pl,
     exc |-> "None", has |-> FALSE, ret |-> <<>>]

NoText == [cfg |-> DefaultCleaner, s |-> <<>>, out1 |-> <<>>, out2 |-> <<>>, stage |-> 0]

StatsIdle == rs = NewStats /\ calls = <<>> /\ last = NoCall

PipelineIdle == p = NewPipeline(DefaultCleaner) /\ plast = NoOp(p)

CleanIdle == tc = NoText

--------------------------------------------------------------------------
(* RollingStats as clients drive it *)

InitStats == StatsIdle /\ PipelineIdle /\ CleanIdle

Update(x) ==
    /\ Len(calls) < MaxN
    /\ LET r == update(rs, x) IN
         /\ rs' = r.st
         /\ calls' = Append(calls, x)
         /\ last' = [op |-> "update", upd |-> TRUE, x |-> x, pre |-> rs, exc |-> r.exc]
    /\ UNCHANGED <<p, plast, tc>>

BulkUpdate(values) ==
    /\ Len(calls) + Len(values) <= MaxN
    /\ LET r == bulk_update(rs, values) IN
         /\ rs' = r.st
         /\ calls' = calls \o r.made
         /\ last' = IF r.made = <<>>
                    THEN [last EXCEPT !.op = "bulk_update", !.upd = FALSE, !.exc = "None"]
                    ELSE [op |-> "bulk_update", upd |-> TRUE, x |-> r.made[Len(r.made)],
                          pre |-> r.pre, exc |-> r.exc]
    /\ UNCHANGED <<p, plast, tc>>

NextStats ==
    \/ \E x \in StatsValues : Update(x)
    \/ \E values \in SeqsUpTo(StatsValues, MaxN - Len(calls)) : BulkUpdate(values)

SpecStats == InitStats /\ [][NextStats]_vars

--------------------------------------------------------------------------
(* DataPipeline as clients drive it *)

Init ==
    /\ StatsIdle /\ CleanIdle
    /\ \E c \in PipeCleaners : p = NewPipeline(c)
    /\ plast = NoOp(p)

IngestTexts(texts) ==
    /\ LET r == ingest_texts(p, texts) IN
         plast' = [op |-> "ingest_texts", xs |-> <<>>, texts |-> texts, pre |-> p,
                   exc |-> r.exc, has |-> r.has, ret |-> r.ret]
    /\ UNCHANGED <<p, rs, calls, last, tc>>

IngestNumbers(xs) ==
    /\ p.stats.n + Len(xs) <= MaxN
    /\ LET r == ingest_numbers(p, xs) IN
         /\ p' = r.p
         /\ plast' = [op |-> "ingest_numbers", xs |-> xs, texts |-> <<>>, pre |-> p,
                      exc |-> r.exc, has |-> (r.exc = "None"), ret |-> <<>>]
    /\ UNCHANGED <<rs, calls, last, tc>>

Reset ==
    /\ p' = reset(p)
    /\ plast' = [op |-> "reset", xs |-> <<>>, texts |-> <<>>, pre |-> p,
                 exc |-> "None", has |-> TRUE, ret |-> <<>>]
    /\ UNCHANGED <<rs, calls, last, tc>>

Next ==
    \/ \E texts \in SeqsUpTo(TextItems, MaxTexts) : IngestTexts(texts)
    \/ \E xs \in SeqsUpTo(PipeValues, MaxN - p.stats.n) : IngestNumbers(xs)
    \/ Reset

Spec == Init /\ [][Next]_vars

--------------------------------------------------------------------------
(* TextCleaner.clean applied once and again *)

InitClean ==
    /\ StatsIdle /\ PipelineIdle
    /\ \E c \in Cleaners, s \in Strings :
         tc = [cfg |-> c, s |-> s, out1 |-> <<>>, out2 |-> <<>>, stage |-> 0]

CleanOnce ==
    /\ tc.stage = 0
    /\ tc' = [tc EXCEPT !.out1 = clean(tc.cfg, PyText(tc.s)).val, !.stage = 1]
    /\ UNCHANGED <<rs, calls, last, p, plast>>

CleanAgain ==
    /\ tc.stage = 1
    /\ tc' = [tc EXCEPT !.out2 = clean(tc.cfg, PyText(tc.out1)).val, !.stage = 2]
    /\ UNCHANGED <<rs, calls, last, p, plast>>

NextClean == CleanOnce \/ CleanAgain

SpecClean == InitClean /\ [][NextClean]_vars

--------------------------------------------------------------------------
(* Reference computations and helpers for the properties *)

\* The sum of a sequence of numbers, as floats.
RECURSIVE SumFloats(_)
SumFloats(xs) == IF xs = <<>> THEN Zero ELSE FAdd(ToFloat(Head(xs)), SumFloats(Tail(xs)))

\* Two-pass reference: the arithmetic mean, then the squared deviations.
RefMean(xs) == FDivInt(SumFloats(xs), Len(xs))

RECURSIVE SumSqDev(_, _)
SumSqDev(xs, m) ==
    IF xs = <<>> THEN Zero
    ELSE LET d == FSub(ToFloat(Head(xs)), m)
         IN  FAdd(FMul(d, d), SumSqDev(Tail(xs), m))

RefVariance(xs) == FDivInt(SumSqDev(xs, RefMean(xs)), Len(xs) - 1)

IsPrefix(s, t) == Len(s) <= Len(t) /\ SubSeq(t, 1, Len(s)) = s

\* The number of elements of xs before its first non-numeric one.
NumericPrefixLen(xs) ==
    IF \A i \in 1..Len(xs) : IsIntOrFloat(xs[i]) THEN Len(xs)
    ELSE (CHOOSE i \in 1..Len(xs) :
            /\ ~IsIntOrFloat(xs[i])
            /\ \A j \in 1..(i - 1) : IsIntOrFloat(xs[j])) - 1

\* The stats after the first k elements of xs were each applied in full.
RECURSIVE StatsAfter(_, _, _)
StatsAfter(st, xs, k) ==
    IF k = 0 THEN st
    ELSE LET prev == StatsAfter(st, xs, k - 1)
             x == ToFloat(xs[k])
             n1 == prev.n + 1
             m1 == FAdd(prev.mean, FDivInt(FSub(x, prev.mean), n1))
         IN  [n |-> n1, mean |-> m1,
              m2 |-> FAdd(prev.m2, FMul(FSub(x, prev.mean), FSub(x, m1)))]

--------------------------------------------------------------------------
(* Properties of RollingStats, under SpecStats *)

C2_NonNumericRejectedUnchanged ==
    (last.upd /\ ~IsIntOrFloat(last.x))
        => /\ last.exc = "ValidationError"
           /\ rs = last.pre

C2_Witness ==
    /\ last.upd /\ ~IsIntOrFloat(last.x)
    /\ last.pre.n >= 2
    /\ last.exc = "ValidationError"

\* C5: an update call with an x that is not a real finite number (a
\* non-numeric value, an infinite float, a nan) raises ValidationError and
\* leaves n, _mean and _m2 as they were.
C5_NonFiniteRejected ==
    (last.upd /\ ~IsFiniteReal(last.x))
        => /\ last.exc = "ValidationError"
           /\ rs = last.pre

\* C6: in every reachable state n is a non-negative integer, _m2 >= 0 and
\* the variance query is not negative.
C6_M2NonNegative ==
    /\ rs.n \in Nat
    /\ FGeZero(rs.m2)
    /\ FGeZero(variance(rs))

--------------------------------------------------------------------------
(* Properties of DataPipeline, under Spec *)

\* C3: when ingest_numbers(xs) meets its first non-numeric element at index
\* k, it raises ValidationError, stats has received exactly xs[0..k-1] in
\* order, cache is the old cache followed by those k values as floats, and
\* nothing else changed.
C3_PrefixAppliedThenValidationError ==
    (plast.op = "ingest_numbers" /\ NumericPrefixLen(plast.xs) < Len(plast.xs))
        => LET k == NumericPrefixLen(plast.xs) IN
           /\ plast.exc = "ValidationError"
           /\ p.stats = StatsAfter(plast.pre.stats, plast.xs, k)
           /\ p.cache = plast.pre.cache \o [i \in 1..k |-> ToFloat(plast.xs[i])]
           /\ p.cleaner = plast.pre.cleaner

\* C4: reset() leaves stats in the zero state (n = 0, mean query 0.0,
\* variance query 0.0), the cache empty and the cleaner's configuration as
\* it was.
C4_ResetZeroesStatsAndCache ==
    plast.op = "reset"
        => /\ p.stats.n = 0
           /\ mean(p.stats) = Zero
           /\ variance(p.stats) = Zero
           /\ p.cache = <<>>
           /\ p.cleaner = plast.pre.cleaner

C4_Witness ==
    /\ plast.op = "reset"
    /\ plast.pre.cache # <<>>
    /\ plast.pre.stats.n >= 2
    /\ p.cleaner # DefaultCleaner

\* C7: every operation other than reset leaves the previous cache as a
\* prefix of the new cache, so only reset shortens it.
C7_CacheGrowsByAppending ==
    /\ plast.op # "reset" => IsPrefix(plast.pre.cache, p.cache)
    /\ Len(p.cache) < Len(plast.pre.cache) => plast.op = "reset"

C7_Witness ==
    /\ plast.op = "ingest_numbers"
    /\ plast.exc # "None"
    /\ plast.pre.cache # <<>>
    /\ Len(p.cache) > Len(plast.pre.cache)

C10_CountEqualsCacheLength == p.stats.n = Len(p.cache)

--------------------------------------------------------------------------
(* Property of TextCleaner.clean, under SpecClean *)

\* C9: under the default configuration (lowercase, collapse_spaces) clean
\* is idempotent: clean(clean(s)) = clean(s).
C9_CleanIdempotent ==
    (tc.stage = 2 /\ tc.cfg = DefaultCleaner) => tc.out2 = tc.out1

C9_Witness ==
    /\ tc.stage = 2 /\ tc.cfg = DefaultCleaner
    /\ tc.out1 # tc.s
    /\ Len(tc.out1) >= 3

====
